---- MODULE Spec2Model ----
(***************************************************************************)
(* Model of generate_gltf_bin.py: the script that packs the four constant  *)
(* arrays of a cube mesh (positions, normals, colors, indices) into one    *)
(* byte buffer and writes it to models/scene.bin.                          *)
(*                                                                         *)
(* Decimal literals of the source are held in thousandths (-0.577 is -577, *)
(* 1.0 is 1000).  PyFloat gives the binary64 value the interpreter holds   *)
(* for such a literal, pack_f the four bytes struct.pack('f', x) produces  *)
(* for it on a host of a given byte order.  Bit strings are sequences of   *)
(* 0/1, most significant bit first.                                        *)
(***************************************************************************)
EXTENDS Integers, Sequences, FiniteSets

\* ------------------------------------------------------------------ bounds
\* number of times the script is run in one behaviour
MaxRuns == 2
\* length of a pre-existing scene.bin shorter than the buffer
OldShortLen == 3
\* length of a pre-existing scene.bin longer than the buffer
OldLongLen == 440

\* ------------------------------------------------------- source constants
PositionsInit ==
    << -1000, -1000, -1000,
        1000, -1000, -1000,
        1000,  1000, -1000,
       -1000,  1000, -1000,
       -1000, -1000,  1000,
        1000, -1000,  1000,
        1000,  1000,  1000,
       -1000,  1000,  1000 >>

\* NormalsInit with one component mistyped (0.557 for 0.577)
NormalsInit_Typo ==
    << -557, -577, -577,
        577, -577, -577,
        577,  577, -577,
       -577,  577, -577,
       -577, -577,  577,
        577, -577,  577,
        577,  577,  577,
       -577,  577,  577 >>

NormalsInit ==
    << -577, -577, -577,
        577, -577, -577,
        577,  577, -577,
       -577,  577, -577,
       -577, -577,  577,
        577, -577,  577,
        577,  577,  577,
       -577,  577,  577 >>

ColorsInit ==
    << 1000,    0,    0,
          0, 1000,    0,
          0,    0, 1000,
       1000, 1000,    0,
       1000,    0, 1000,
          0, 1000, 1000,
       1000, 1000, 1000,
        500,  500,  500 >>

\* IndicesInit with a vertex number past the last vertex
IndicesInit_OutOfRange ==
    << 0, 1, 2, 2, 3, 0,
       4, 6, 5, 6, 4, 7,
       4, 0, 3, 3, 7, 4,
       1, 5, 6, 6, 2, 1,
       3, 2, 6, 6, 7, 3,
       4, 5, 1, 1, 0, 8 >>

\* IndicesInit with the first triangle listed in the opposite direction
IndicesInit_Flipped ==
    << 0, 2, 1, 2, 3, 0,
       4, 6, 5, 6, 4, 7,
       4, 0, 3, 3, 7, 4,
       1, 5, 6, 6, 2, 1,
       3, 2, 6, 6, 7, 3,
       4, 5, 1, 1, 0, 4 >>

\* IndicesInit with the first triangle cutting through the cube
IndicesInit_Diagonal ==
    << 0, 1, 6, 2, 3, 0,
       4, 6, 5, 6, 4, 7,
       4, 0, 3, 3, 7, 4,
       1, 5, 6, 6, 2, 1,
       3, 2, 6, 6, 7, 3,
       4, 5, 1, 1, 0, 4 >>

IndicesInit ==
    << 0, 1, 2, 2, 3, 0,
       4, 6, 5, 6, 4, 7,
       4, 0, 3, 3, 7, 4,
       1, 5, 6, 6, 2, 1,
       3, 2, 6, 6, 7, 3,
       4, 5, 1, 1, 0, 4 >>

\* denominator of the literal representation: a literal x stands for x / Scale
Scale == 1000

\* ------------------------------------------------------------ bit strings
Zeros(n) == [k \in 1..n |-> 0]

RECURSIVE ToBits(_, _)
\* the w low bits of n, most significant first
ToBits(n, w) ==
    IF w = 0 THEN << >> ELSE Append(ToBits(n \div 2, w - 1), n % 2)

RECURSIVE FromBits(_)
FromBits(b) ==
    IF b = << >> THEN 0
    ELSE 2 * FromBits(SubSeq(b, 1, Len(b) - 1)) + b[Len(b)]

RECURSIVE IncBits(_)
\* b + 1 on a fixed width, with the carry out
IncBits(b) ==
    IF b = << >> THEN [bits |-> << >>, carry |-> 1]
    ELSE LET rest == SubSeq(b, 1, Len(b) - 1)
         IN  IF b[Len(b)] = 0
             THEN [bits |-> Append(rest, 1), carry |-> 0]
             ELSE LET r == IncBits(rest)
                  IN  [bits |-> Append(r.bits, 0), carry |-> r.carry]

\* round a normalised significand to nearest, ties to even: kept are the
\* retained bits, guard the first dropped bit, sticky whether any later
\* dropped bit is set
RoundNearestEven(kept, guard, sticky, exp) ==
    IF guard = 1 /\ (sticky \/ kept[Len(kept)] = 1)
    THEN LET r == IncBits(kept)
         IN  IF r.carry = 1
             THEN [exp |-> exp + 1, mant |-> <<1>> \o Zeros(Len(kept) - 1)]
             ELSE [exp |-> exp, mant |-> r.bits]
    ELSE [exp |-> exp, mant |-> kept]

\* ------------------------------------------------- binary64 and binary32
DoubleBits == 53
SingleBits == 24
SingleBias == 127

RECURSIVE Normalise(_, _, _)
\* n/d * 2^e rewritten with 1 <= n/d < 2
Normalise(n, d, e) ==
    IF n >= 2 * d THEN Normalise(n, 2 * d, e + 1)
    ELSE IF n < d THEN Normalise(2 * n, d, e - 1)
    ELSE [n |-> n, d |-> d, e |-> e]

RECURSIVE FracBits(_, _, _)
\* the first k bits of the binary expansion of r/d, 0 <= r < d
FracBits(r, d, k) ==
    IF k = 0 THEN << >>
    ELSE IF 2 * r >= d THEN <<1>> \o FracBits(2 * r - d, d, k - 1)
         ELSE <<0>> \o FracBits(2 * r, d, k - 1)

RECURSIVE FracRem(_, _, _)
\* the remainder left after k bits of r/d
FracRem(r, d, k) ==
    IF k = 0 THEN r
    ELSE IF 2 * r >= d THEN FracRem(2 * r - d, d, k - 1)
         ELSE FracRem(2 * r, d, k - 1)

\* the binary64 value of the decimal literal x/Scale: correctly rounded,
\* as the interpreter's parser produces it
PyFloat(x) ==
    IF x = 0
    THEN [sign |-> 0, zero |-> TRUE, exp |-> 0, mant |-> Zeros(DoubleBits)]
    ELSE LET a   == IF x < 0 THEN -x ELSE x
             nm  == Normalise(a, Scale, 0)
             all == FracBits(nm.n - nm.d, nm.d, DoubleBits)
             rem == FracRem(nm.n - nm.d, nm.d, DoubleBits)
             r   == RoundNearestEven(<<1>> \o SubSeq(all, 1, DoubleBits - 1),
                                     all[DoubleBits], rem # 0, nm.e)
         IN  [sign |-> IF x < 0 THEN 1 ELSE 0, zero |-> FALSE,
              exp |-> r.exp, mant |-> r.mant]

\* DoubleToSingle that drops the low bits instead of rounding
DoubleToSingle_Truncate(dv) ==
    IF dv.zero
    THEN [sign |-> dv.sign, zero |-> TRUE, exp |-> 0, mant |-> Zeros(SingleBits)]
    ELSE [sign |-> dv.sign, zero |-> FALSE, exp |-> dv.exp,
          mant |-> SubSeq(dv.mant, 1, SingleBits)]

\* conversion binary64 -> binary32 done by the 'f' format (normal range)
DoubleToSingle(dv) ==
    IF dv.zero
    THEN [sign |-> dv.sign, zero |-> TRUE, exp |-> 0, mant |-> Zeros(SingleBits)]
    ELSE LET r == RoundNearestEven(SubSeq(dv.mant, 1, SingleBits),
                                   dv.mant[SingleBits + 1],
                                   \E k \in (SingleBits + 2)..DoubleBits : dv.mant[k] = 1,
                                   dv.exp)
         IN  [sign |-> dv.sign, zero |-> FALSE, exp |-> r.exp, mant |-> r.mant]

\* exact widening binary32 -> binary64 done when a packed float is read back
SingleToDouble(sv) ==
    [sign |-> sv.sign, zero |-> sv.zero, exp |-> sv.exp,
     mant |-> sv.mant \o Zeros(DoubleBits - SingleBits)]

\* the 32 bits of a binary32: sign, biased exponent, fraction
SingleWord(sv) ==
    IF sv.zero THEN <<sv.sign>> \o Zeros(31)
    ELSE <<sv.sign>> \o ToBits(sv.exp + SingleBias, 8) \o SubSeq(sv.mant, 2, SingleBits)

WordSingle(w) ==
    LET be == FromBits(SubSeq(w, 2, 9))
    IN  IF be = 0
        THEN [sign |-> w[1], zero |-> TRUE, exp |-> 0, mant |-> Zeros(SingleBits)]
        ELSE [sign |-> w[1], zero |-> FALSE, exp |-> be - SingleBias,
              mant |-> <<1>> \o SubSeq(w, 10, 32)]

\* ------------------------------------------------------------- struct.pack
Reverse(s) == [k \in 1..Len(s) |-> s[Len(s) + 1 - k]]

\* the four bytes of a 32-bit word, most significant byte first
WordBytes(w) == [k \in 1..4 |-> FromBits(SubSeq(w, 8 * k - 7, 8 * k))]

BytesWord(b) == ToBits(b[1], 8) \o ToBits(b[2], 8) \o ToBits(b[3], 8) \o ToBits(b[4], 8)

\* no byte-order prefix in the format string: native order of the host
Native(bytesBE, byteorder) ==
    IF byteorder = "little" THEN Reverse(bytesBE) ELSE bytesBE

\* struct.pack('f', x)
pack_f(x, byteorder) ==
    Native(WordBytes(SingleWord(DoubleToSingle(PyFloat(x)))), byteorder)

\* struct.pack('I', k)
pack_I(k, byteorder) ==
    Native(WordBytes(ToBits(k, 32)), byteorder)

\* struct.unpack('f', b)[0], as the binary64 the interpreter then holds
unpack_f(b, byteorder) ==
    SingleToDouble(WordSingle(BytesWord(Native(b, byteorder))))

\* struct.unpack('I', b)[0] for values below 2^31
unpack_I(b, byteorder) ==
    LET be == Native(b, byteorder)
    IN  ((be[1] * 256 + be[2]) * 256 + be[3]) * 256 + be[4]

\* ------------------------------------------------------------------- state
VARIABLES
    positions,   \* module global, literals in thousandths
    normals,     \* module global
    colors,      \* module global
    indices,     \* module global
    data,        \* the bytes object built by the four loops
    pc,          \* position of the interpreter in the script
    it,          \* position of the running for loop in its list
    byteorder,   \* sys.byteorder of the host ("little" or "big")
    dirExists,   \* whether the directory models/ exists
    writable,    \* whether models/scene.bin may be opened for writing
    file,        \* models/scene.bin: [exists, bytes]
    f,           \* the file object of the with statement: none, open, closed
    raised,      \* an exception is propagating out of the with block
    stdout,      \* the lines printed by this run
    exitCode,    \* exit status of the process, -1 while it runs
    run,         \* number of the current run, from 1
    file0,       \* history: models/scene.bin when the current run started
    writeCalls,  \* history: the arguments of the f.write calls of this run
    results      \* history: scene.bin as left by each successful run

vars == << positions, normals, colors, indices, data, pc, it, byteorder,
           dirExists, writable, file, f, raised, stdout, exitCode, run,
           file0, writeCalls, results >>

arrays == << positions, normals, colors, indices >>
host   == << byteorder, dirExists, writable >>

NoFile == [exists |-> FALSE, bytes |-> << >>]

\* what models/scene.bin may hold before the first run
OldFiles ==
    { NoFile,
      [exists |-> TRUE, bytes |-> << >>],
      [exists |-> TRUE, bytes |-> [k \in 1..OldShortLen |-> 255]],
      [exists |-> TRUE, bytes |-> [k \in 1..OldLongLen |-> 255]] }

\* the state of the interpreter when the script starts
Start ==
    /\ positions = PositionsInit
    /\ normals = NormalsInit
    /\ colors = ColorsInit
    /\ indices = IndicesInit
    /\ data = << >>
    /\ pc = "pack_positions"
    /\ it = 1
    /\ f = "none"
    /\ raised = FALSE
    /\ stdout = << >>
    /\ exitCode = -1
    /\ writeCalls = << >>

Init ==
    /\ Start
    /\ byteorder \in {"little", "big"}
    /\ dirExists \in BOOLEAN
    /\ writable \in BOOLEAN
    /\ file \in OldFiles
    /\ file.exists => dirExists
    /\ run = 1
    /\ file0 = file
    /\ results = << >>

\* ----------------------------------------------------------------- actions
\* for v in positions: data += struct.pack('f', v)
PackPositions ==
    /\ pc = "pack_positions"
    /\ IF it <= Len(positions)
       THEN /\ data' = data \o pack_f(positions[it], byteorder)
            /\ it' = it + 1
            /\ pc' = pc
       ELSE /\ pc' = "pack_normals"
            /\ it' = 1
            /\ data' = data
    /\ UNCHANGED << arrays, host, file, f, raised, stdout, exitCode, run,
                    file0, writeCalls, results >>

\* for n in normals: data += struct.pack('f', n)
PackNormals ==
    /\ pc = "pack_normals"
    /\ IF it <= Len(normals)
       THEN /\ data' = data \o pack_f(normals[it], byteorder)
            /\ it' = it + 1
            /\ pc' = pc
       ELSE /\ pc' = "pack_colors"
            /\ it' = 1
            /\ data' = data
    /\ UNCHANGED << arrays, host, file, f, raised, stdout, exitCode, run,
                    file0, writeCalls, results >>

\* for c in colors: data += struct.pack('f', c)
PackColors ==
    /\ pc = "pack_colors"
    /\ IF it <= Len(colors)
       THEN /\ data' = data \o pack_f(colors[it], byteorder)
            /\ it' = it + 1
            /\ pc' = pc
       ELSE /\ pc' = "pack_indices"
            /\ it' = 1
            /\ data' = data
    /\ UNCHANGED << arrays, host, file, f, raised, stdout, exitCode, run,
                    file0, writeCalls, results >>

\* PackIndices with the two-byte format 'H' in place of 'I'
PackIndices_Short ==
    /\ pc = "pack_indices"
    /\ IF it <= Len(indices)
       THEN /\ data' = data \o Native(<<0, indices[it]>>, byteorder)
            /\ it' = it + 1
            /\ pc' = pc
       ELSE /\ pc' = "open"
            /\ it' = 1
            /\ data' = data
    /\ UNCHANGED << arrays, host, file, f, raised, stdout, exitCode, run,
                    file0, writeCalls, results >>

\* for i in indices: data += struct.pack('I', i)
PackIndices ==
    /\ pc = "pack_indices"
    /\ IF it <= Len(indices)
       THEN /\ data' = data \o pack_I(indices[it], byteorder)
            /\ it' = it + 1
            /\ pc' = pc
       ELSE /\ pc' = "open"
            /\ it' = 1
            /\ data' = data
    /\ UNCHANGED << arrays, host, file, f, raised, stdout, exitCode, run,
                    file0, writeCalls, results >>

\* OpenFile with the error of open() caught and ignored
OpenFile_Swallow ==
    /\ pc = "open"
    /\ IF dirExists /\ writable
       THEN /\ file' = [exists |-> TRUE, bytes |-> << >>]
            /\ f' = "open"
            /\ pc' = "write"
       ELSE /\ pc' = "print_count"
            /\ UNCHANGED << file, f >>
    /\ UNCHANGED << arrays, host, data, it, raised, stdout, exitCode, run,
                    file0, writeCalls, results >>

\* OpenFile with mode 'ab': an existing file is kept and appended to
OpenFile_Append ==
    /\ pc = "open"
    /\ IF dirExists /\ writable
       THEN /\ file' = [exists |-> TRUE, bytes |-> file.bytes]
            /\ f' = "open"
            /\ pc' = "write"
            /\ exitCode' = exitCode
       ELSE /\ pc' = "failed"
            /\ exitCode' = 1
            /\ UNCHANGED << file, f >>
    /\ UNCHANGED << arrays, host, data, it, raised, stdout, run, file0,
                    writeCalls, results >>

\* open('models/scene.bin', 'wb'): FileNotFoundError without the directory,
\* PermissionError without the right to write, otherwise the file is created
\* or truncated.  The error is not caught: the process ends with status 1.
OpenFile ==
    /\ pc = "open"
    /\ IF dirExists /\ writable
       THEN /\ file' = [exists |-> TRUE, bytes |-> << >>]
            /\ f' = "open"
            /\ pc' = "write"
            /\ exitCode' = exitCode
       ELSE /\ pc' = "failed"
            /\ exitCode' = 1
            /\ UNCHANGED << file, f >>
    /\ UNCHANGED << arrays, host, data, it, raised, stdout, run, file0,
                    writeCalls, results >>

\* f.write(data): all of data reaches the file, or an OSError is raised
\* after none or part of it did
WriteData ==
    /\ pc = "write"
    /\ f = "open"
    /\ writeCalls' = Append(writeCalls, data)
    /\ \/ /\ file' = [file EXCEPT !.bytes = @ \o data]
          /\ raised' = FALSE
       \/ /\ \E n \in {0, 4} :
                file' = [file EXCEPT !.bytes = @ \o SubSeq(data, 1, n)]
          /\ raised' = TRUE
    /\ pc' = "exit_with"
    /\ UNCHANGED << arrays, host, data, it, f, stdout, exitCode, run, file0,
                    results >>

\* ExitWith that closes f only when the block ended normally
ExitWith_Leak ==
    /\ pc = "exit_with"
    /\ IF raised
       THEN /\ pc' = "failed"
            /\ exitCode' = 1
            /\ f' = f
       ELSE /\ pc' = "print_count"
            /\ exitCode' = exitCode
            /\ f' = "closed"
    /\ UNCHANGED << arrays, host, data, it, file, raised, stdout, run, file0,
                    writeCalls, results >>

\* leaving the with block closes f, whether or not an exception is
\* propagating; an exception then ends the process with status 1
ExitWith ==
    /\ pc = "exit_with"
    /\ f' = "closed"
    /\ IF raised
       THEN /\ pc' = "failed"
            /\ exitCode' = 1
       ELSE /\ pc' = "print_count"
            /\ exitCode' = exitCode
    /\ UNCHANGED << arrays, host, data, it, file, raised, stdout, run, file0,
                    writeCalls, results >>

\* print(f'Generated scene.bin with {len(data)} bytes')
PrintCount ==
    /\ pc = "print_count"
    /\ stdout' = Append(stdout, <<"Generated scene.bin with", Len(data), "bytes">>)
    /\ pc' = "print_place"
    /\ UNCHANGED << arrays, host, data, it, file, f, raised, exitCode, run,
                    file0, writeCalls, results >>

\* print('Place this file in the models/ directory alongside scene.gltf'),
\* the last statement: the process then ends with status 0
PrintPlace ==
    /\ pc = "print_place"
    /\ stdout' = Append(stdout, <<"Place this file in the models/ directory alongside scene.gltf">>)
    /\ pc' = "done"
    /\ exitCode' = 0
    /\ results' = Append(results, file.bytes)
    /\ UNCHANGED << arrays, host, data, it, file, f, raised, run, file0,
                    writeCalls >>

\* the script is run again on the same host: a fresh interpreter, the
\* filesystem as the previous run left it
RunAgain ==
    /\ pc \in {"done", "failed"}
    /\ run < MaxRuns
    /\ positions' = PositionsInit
    /\ normals' = NormalsInit
    /\ colors' = ColorsInit
    /\ indices' = IndicesInit
    /\ data' = << >>
    /\ pc' = "pack_positions"
    /\ it' = 1
    /\ f' = "none"
    /\ raised' = FALSE
    /\ stdout' = << >>
    /\ exitCode' = -1
    /\ writeCalls' = << >>
    /\ run' = run + 1
    /\ file0' = file
    /\ UNCHANGED << host, file, results >>

Next ==
    \/ PackPositions
    \/ PackNormals
    \/ PackColors
    \/ PackIndices
    \/ OpenFile
    \/ WriteData
    \/ ExitWith
    \/ PrintCount
    \/ PrintPlace
    \/ RunAgain

Spec == Init /\ [][Next]_vars

\* ------------------------------------------------------------- properties
\* element k (from 0) of a buffer of 4-byte elements
Elem(b, k) == SubSeq(b, 4 * k + 1, 4 * k + 4)

Packing == {"pack_positions", "pack_normals", "pack_colors", "pack_indices"}

GeneratedLine == <<"Generated scene.bin with", 432, "bytes">>
PlaceLine == <<"Place this file in the models/ directory alongside scene.gltf">>

\* C1: after a successful run scene.bin is the buffer, 432 bytes long, and
\* holds the packed positions at bytes [0,96), normals at [96,192), colors at
\* [192,288) and indices at [288,432), element by element in list order.
C1_Layout ==
    pc = "done" =>
        /\ Len(data) = 432
        /\ file.exists
        /\ file.bytes = data
        /\ Len(file.bytes) = 432
        /\ \A k \in 0..23 :
              /\ SubSeq(file.bytes, 4 * k + 1, 4 * k + 4)
                    = pack_f(PositionsInit[k + 1], byteorder)
              /\ SubSeq(file.bytes, 96 + 4 * k + 1, 96 + 4 * k + 4)
                    = pack_f(NormalsInit[k + 1], byteorder)
              /\ SubSeq(file.bytes, 192 + 4 * k + 1, 192 + 4 * k + 4)
                    = pack_f(ColorsInit[k + 1], byteorder)
        /\ \A k \in 0..35 :
              SubSeq(file.bytes, 288 + 4 * k + 1, 288 + 4 * k + 4)
                    = pack_I(IndicesInit[k + 1], byteorder)

\* a run ended with status 0 over a longer file
C1_Witness ==
    pc = "done" /\ exitCode = 0 /\ Len(file0.bytes) > 432 /\ Len(file.bytes) = 432

\* C2: at every point of the run the four lists are the ones of the source:
\* 24 positions, 24 normals, 24 colors, 36 indices (a multiple of 3), every
\* index in 0..7; and the 36 unsigned integers read back from bytes
\* [288,432) of the written file are these indices, all in 0..7.
C2_DataModel ==
    /\ positions = PositionsInit
    /\ normals = NormalsInit
    /\ colors = ColorsInit
    /\ Len(positions) = 24
    /\ Len(normals) = 24
    /\ Len(colors) = 24
    /\ Len(indices) = 36
    /\ Len(indices) % 3 = 0
    /\ \A k \in 1..Len(indices) : indices[k] \in 0..7
    /\ pc = "done" =>
          \A k \in 0..35 :
              /\ unpack_I(Elem(file.bytes, 72 + k), byteorder) \in 0..7
              /\ unpack_I(Elem(file.bytes, 72 + k), byteorder) = indices[k + 1]

\* the file is written and its last index reads back as 4
C2_Witness ==
    pc = "done" /\ unpack_I(Elem(file.bytes, 107), byteorder) = 4

\* C3: every element of the written file has its least significant byte
\* first on every host: index k is stored as k, 0, 0, 0 and the floats
\* likewise (-1.0 as 00 00 80 BF, 0.5 as 00 00 00 3F).
C3_LittleEndian ==
    pc = "done" =>
        /\ \A k \in 0..35 : Elem(file.bytes, 72 + k) = <<indices[k + 1], 0, 0, 0>>
        /\ Elem(file.bytes, 0) = <<0, 0, 128, 191>>
        /\ Elem(file.bytes, 71) = <<0, 0, 0, 63>>

\* C4: when models/ does not exist or scene.bin cannot be opened for
\* writing, the run ends in the error state with a non-zero status, the file
\* is as it was before the run (none is created), and nothing is printed.
C4_OpenError ==
    (~(dirExists /\ writable) /\ pc \notin Packing \cup {"open"}) =>
        /\ pc = "failed"
        /\ exitCode # 0
        /\ exitCode = 1
        /\ f = "none"
        /\ file = file0
        /\ (~dirExists => ~file.exists)
        /\ stdout = << >>
        /\ results = << >>

\* the run failed at open() for want of the directory
C4_Witness ==
    pc = "failed" /\ ~dirExists /\ f = "none" /\ Len(data) = 432

\* C5: all successful runs leave the same bytes in scene.bin, and a
\* successful run leaves exactly its buffer there whatever the file held
\* before (nothing, fewer bytes, more bytes, the result of an earlier run).
C5_Idempotent ==
    /\ \A a, b \in 1..Len(results) : results[a] = results[b]
    /\ pc = "done" => file.bytes = data /\ results[Len(results)] = data

\* two successful runs, the second over the file of the first
C5_Witness ==
    Len(results) >= 2 /\ pc = "done" /\ file0.bytes = results[1]

SquaredLength(v, i) ==
    v[3 * i + 1] * v[3 * i + 1] + v[3 * i + 2] * v[3 * i + 2]
        + v[3 * i + 3] * v[3 * i + 3]

\* C6 as stated: every normal has squared length exactly 1, that is
\* Scale * Scale in squared thousandths.
C6_UnitLength ==
    \A i \in 0..7 : SquaredLength(normals, i) = Scale * Scale

\* C6 amended: every normal has squared length 0.998787 (3 * 577^2 in
\* squared thousandths), short of 1 by less than 0.002.
C6_NearUnit ==
    \A i \in 0..7 :
        /\ SquaredLength(normals, i) = 998787
        /\ SquaredLength(normals, i) < Scale * Scale
        /\ Scale * Scale - SquaredLength(normals, i) < 2 * Scale

\* the normals have all been packed
C6_Witness ==
    pc = "pack_colors" /\ it = 1 /\ Len(data) = 192

\* the float list element k (from 0) of the buffer was packed from
Packed(k) ==
    IF k < 24 THEN positions[k + 1]
    ELSE IF k < 48 THEN normals[k - 23]
    ELSE colors[k - 47]

\* C7 as stated: every float written reads back as the constant it was
\* packed from.
C7_RoundTrip ==
    \A k \in 0..71 :
        4 * (k + 1) <= Len(data) =>
            unpack_f(Elem(data, k), byteorder) = PyFloat(Packed(k))

\* C7 amended: positions and colors read back as their constants (the first
\* four bytes as -1.0); a normal reads back as the single nearest to it,
\* +-0x1.276c8cp-1 (significand 0x93B646), which is not the constant.
C7_Decoded ==
    /\ \A k \in 0..71 :
          4 * (k + 1) <= Len(data) =>
              LET v == unpack_f(Elem(data, k), byteorder)
                  x == Packed(k)
              IN  IF k \in 24..47
                  THEN /\ v = [sign |-> IF x < 0 THEN 1 ELSE 0, zero |-> FALSE,
                               exp |-> -1,
                               mant |-> ToBits(9680454, 24) \o Zeros(29)]
                       /\ v # PyFloat(x)
                  ELSE v = PyFloat(x)
    /\ Len(data) >= 4 =>
          unpack_f(Elem(data, 0), byteorder)
              = [sign |-> 1, zero |-> FALSE, exp |-> 0,
                 mant |-> <<1>> \o Zeros(52)]

\* the three float lists have been packed
C7_Witness ==
    pc = "pack_indices" /\ it = 1 /\ Len(data) = 288

\* C8: the file is open only while the complete buffer is being written;
\* f.write is called at most once, with the complete buffer; f is closed
\* once the with block is left, after a write and after a write error; the
\* two lines are printed in order, after the write and the close.
C8_Order ==
    /\ f = "open" => Len(data) = 432 /\ pc \in {"write", "exit_with"}
    /\ pc \in Packing \cup {"open"} => f = "none" /\ writeCalls = << >>
    /\ Len(writeCalls) <= 1
    /\ \A k \in 1..Len(writeCalls) : writeCalls[k] = data /\ Len(data) = 432
    /\ pc \in {"print_count", "print_place", "done", "failed"} => f # "open"
    /\ (pc = "failed" /\ raised) => f = "closed" /\ stdout = << >>
    /\ pc \in {"print_count", "print_place", "done"} =>
          f = "closed" /\ writeCalls = <<data>> /\ file.bytes = data
    /\ stdout # << >> =>
          /\ f = "closed"
          /\ writeCalls = <<data>>
          /\ stdout \in {<<GeneratedLine>>, <<GeneratedLine, PlaceLine>>}
    /\ pc = "done" => stdout = <<GeneratedLine, PlaceLine>>

\* a run that printed both lines, after a run that ended on a write error
C8_Witness ==
    pc = "done" /\ Len(stdout) = 2 /\ run > 1 /\ Len(file0.bytes) = 4

\* coordinate c (0, 1, 2) of vertex v, in units
P(v, c) == positions[3 * v + c + 1] \div Scale

\* vertex n (0, 1, 2) of triangle t
Tri(t, n) == indices[3 * t + n + 1]

Cross(u, w) ==
    << u[2] * w[3] - u[3] * w[2],
       u[3] * w[1] - u[1] * w[3],
       u[1] * w[2] - u[2] * w[1] >>

Edge(a, b) == [c \in 1..3 |-> P(b, c - 1) - P(a, c - 1)]

\* normal of triangle t by its listed order, dotted with three times its
\* centroid
Winding(t) ==
    LET n == Cross(Edge(Tri(t, 0), Tri(t, 1)), Edge(Tri(t, 0), Tri(t, 2)))
        g == [c \in 1..3 |-> P(Tri(t, 0), c - 1) + P(Tri(t, 1), c - 1)
                                + P(Tri(t, 2), c - 1)]
    IN  n[1] * g[1] + n[2] * g[2] + n[3] * g[3]

\* C9: no triangle of the index list is degenerate and all 12 turn the same
\* way seen from the centre of the cube.
C9_Winding ==
    /\ \A t \in 0..11 :
          Cross(Edge(Tri(t, 0), Tri(t, 1)), Edge(Tri(t, 0), Tri(t, 2)))
              # <<0, 0, 0>>
    /\ \/ \A t \in 0..11 : Winding(t) > 0
       \/ \A t \in 0..11 : Winding(t) < 0

\* the index list has been packed
C9_Witness ==
    pc = "open" /\ Len(data) = 432 /\ Winding(0) = -12 /\ Winding(11) = -12

Corners(t) == {Tri(t, 0), Tri(t, 1), Tri(t, 2)}

\* triangle t lies on the face where coordinate c has value s
OnFace(t, c, s) == \A v \in Corners(t) : P(v, c) = s

FaceTriangles(c, s) == {t \in 0..11 : OnFace(t, c, s)}

\* C10: every triangle has three distinct vertices on one face of the cube,
\* each of the 6 faces has exactly 2 triangles which together use its 4
\* corners, and every vertex 0..7 occurs in the index list.
C10_Triangulation ==
    /\ \A t \in 0..11 :
          /\ Cardinality(Corners(t)) = 3
          /\ \E c \in 0..2 : \E s \in {-1, 1} : OnFace(t, c, s)
    /\ \A c \in 0..2 : \A s \in {-1, 1} :
          /\ Cardinality(FaceTriangles(c, s)) = 2
          /\ Cardinality(UNION {Corners(t) : t \in FaceTriangles(c, s)}) = 4
    /\ \A v \in 0..7 : \E k \in 1..Len(indices) : indices[k] = v

\* the index list has been packed and written
C10_Witness ==
    pc = "done" /\ FaceTriangles(2, -1) = {0, 1} /\ FaceTriangles(1, -1) = {10, 11}

====
